---- MODULE Spec2Model ----
(***************************************************************************)
(* Model of the lp50xx-async driver: the per-variant constants (hl/mod.rs  *)
(* LP50xx impls), the I2C register adapter (ll/i2c.rs) and the typestate   *)
(* driver (hl/mod.rs Driver).  The I2C bus is a trace of transactions, the *)
(* device behind it a register file.                                       *)
(***************************************************************************)
EXTENDS Integers, Sequences, FiniteSets, TLC

VARIABLES
    variant,    \* the VARIANT type parameter of Driver
    selector,   \* the `address: Address` argument given to new()
    address,    \* DeviceInterface.address, fixed by new()
    handle,     \* typestate of the live Driver value: Standby, Normal, or None
    inflight,   \* the suspended operation (configure between its two awaits)
    bus,        \* every transaction the I2c transport was asked to perform
    regs,       \* the register file of the addressed device
    calls       \* the public operations called, in call order, with results

vars == <<variant, selector, address, handle, inflight, bus, regs, calls>>

-----------------------------------------------------------------------------
(* Bounds of the model *)

\* Number of public operations called on one constructed driver.
MaxOps == 3

\* Number of transactions the I2C transport fails.
MaxFailures == 1

-----------------------------------------------------------------------------
(* u8 arithmetic *)

U8 == 0..255

Pow2(n) == 2^n

Bit(b, n) == (b \div Pow2(n)) % 2

\* field setter of a generated register accessor: replace bit n of b by v
SetBit(b, n, v) == b - Bit(b, n) * Pow2(n) + v * Pow2(n)

RECURSIVE BitOrFrom(_, _, _)
BitOrFrom(a, b, n) ==
    IF n > 7 THEN 0
    ELSE (IF Bit(a, n) = 1 \/ Bit(b, n) = 1 THEN Pow2(n) ELSE 0)
         + BitOrFrom(a, b, n + 1)

\* the `|` of two u8
BitOr(a, b) == BitOrFrom(a, b, 0)

\* u8 `+` and `*` (wrapping, as a release build computes them)
U8Add(a, b) == (a + b) % 256
U8Mul(a, b) == (a * b) % 256

BoolBit(x) == IF x THEN 1 ELSE 0

Repeat(x, n) == [k \in 1..n |-> x]

-----------------------------------------------------------------------------
(* hl/mod.rs: the LP50xx trait and its six impls *)

Variants == {"LP5009", "LP5012", "LP5018", "LP5024", "LP5030", "LP5036"}

LED_COUNT(v) ==
    CASE v = "LP5009" -> 9
      [] v = "LP5012" -> 12
      [] v = "LP5018" -> 18
      [] v = "LP5024" -> 24
      [] v = "LP5030" -> 30
      [] v = "LP5036" -> 36

\* const RGB_COUNT: u8 = Self::LED_COUNT / 3  (no impl overrides it)
RGB_COUNT(v) == LED_COUNT(v) \div 3

I2C_ADDRESS_BASE(v) ==
    CASE v = "LP5009" -> 96     \* 0b0110_0000
      [] v = "LP5012" -> 96     \* 0b0110_0000
      [] v = "LP5018" -> 80     \* 0b0101_0000
      [] v = "LP5024" -> 80     \* 0b0101_0000
      [] v = "LP5030" -> 96     \* 0b0110_0000
      [] v = "LP5036" -> 96     \* 0b0110_0000

I2C_ADDRESS_BROADCAST(v) ==
    CASE v = "LP5009" -> 56     \* 0b0011_1000
      [] v = "LP5012" -> 56     \* 0b0011_1000
      [] v = "LP5018" -> 120    \* 0b0111_1000
      [] v = "LP5024" -> 120    \* 0b0111_1000
      [] v = "LP5030" -> 56     \* 0b0011_1000
      [] v = "LP5036" -> 56     \* 0b0011_1000

\* LED_START_ADDRESS of a register map without the seven registers in front of
\* the brightness block: it begins where control-0 is
LED_START_ADDRESS_AtControl(v) ==
    CASE v \in {"LP5030", "LP5036"} -> 1
      [] OTHER -> 0

LED_START_ADDRESS(v) ==
    CASE v = "LP5009" -> 7
      [] v = "LP5012" -> 7
      [] v = "LP5018" -> 7
      [] v = "LP5024" -> 7
      [] v = "LP5030" -> 8
      [] v = "LP5036" -> 8

\* OUT_START_ADDRESS with no impl overriding the default
OUT_START_ADDRESS_Default(v) == U8Add(LED_START_ADDRESS(v), RGB_COUNT(v))

\* const OUT_START_ADDRESS: u8 = LED_START_ADDRESS + RGB_COUNT, overridden by
\* LP5009 (0x0b), LP5018 (0x0f) and LP5030 (0x14)
OUT_START_ADDRESS(v) ==
    CASE v = "LP5009" -> 11
      [] v = "LP5018" -> 15
      [] v = "LP5030" -> 20
      [] OTHER -> U8Add(LED_START_ADDRESS(v), RGB_COUNT(v))

-----------------------------------------------------------------------------
(* hl/mod.rs: enum Address and Driver::new *)

Selectors == {"Address0", "Address1", "Address2", "Address3", "Broadcast"}

\* new with the offsets of Address1 and Address2 exchanged
new_swapped(v, a) ==
    CASE a = "Address0" -> I2C_ADDRESS_BASE(v)
      [] a = "Address1" -> BitOr(I2C_ADDRESS_BASE(v), 4)
      [] a = "Address2" -> BitOr(I2C_ADDRESS_BASE(v), 2)
      [] a = "Address3" -> BitOr(I2C_ADDRESS_BASE(v), 6)
      [] a = "Broadcast" -> I2C_ADDRESS_BROADCAST(v)

new(v, a) ==
    CASE a = "Address0" -> I2C_ADDRESS_BASE(v)
      [] a = "Address1" -> BitOr(I2C_ADDRESS_BASE(v), 2)
      [] a = "Address2" -> BitOr(I2C_ADDRESS_BASE(v), 4)
      [] a = "Address3" -> BitOr(I2C_ADDRESS_BASE(v), 6)
      [] a = "Broadcast" -> I2C_ADDRESS_BROADCAST(v)

-----------------------------------------------------------------------------
(* ll: the register map generated from ll.yaml, as its tests show it *)

\* register addresses of device_config_0 and device_config_1
DEVICE_CONFIG_0 == 0
DEVICE_CONFIG_1 == 1

\* device_config_0: chip_en; the value write_async starts from
CHIP_EN_BIT == 6
DEVICE_CONFIG_0_RESET == 0

\* device_config_1: the four fields configure sets
LOG_SCALE_EN_BIT == 5
POWER_SAVE_EN_BIT == 4
PWM_DITHERING_EN_BIT == 2
MAX_CURRENT_OPTION_BIT == 1

\* enum MaxCurrentOption as the field's bit
MaxCurrentOptions == {"Current25MA5", "Current35MA"}
MaxCurrentBit(m) == IF m = "Current35MA" THEN 1 ELSE 0

\* struct Config
Configs ==
    [log_scale : BOOLEAN, power_save : BOOLEAN, pwm_dithering : BOOLEAN,
     max_current : MaxCurrentOptions]

\* ConfigureFields applied to a cleared byte, as write_async would
ConfigureFieldsFromZero(b, config) ==
    LET w1 == SetBit(0, LOG_SCALE_EN_BIT, BoolBit(config.log_scale))
        w2 == SetBit(w1, MAX_CURRENT_OPTION_BIT, MaxCurrentBit(config.max_current))
        w3 == SetBit(w2, POWER_SAVE_EN_BIT, BoolBit(config.power_save))
    IN  SetBit(w3, PWM_DITHERING_EN_BIT, BoolBit(config.pwm_dithering))

\* the closure configure hands to modify_async, applied to the byte read
ConfigureFields(b, config) ==
    LET w1 == SetBit(b, LOG_SCALE_EN_BIT, BoolBit(config.log_scale))
        w2 == SetBit(w1, MAX_CURRENT_OPTION_BIT, MaxCurrentBit(config.max_current))
        w3 == SetBit(w2, POWER_SAVE_EN_BIT, BoolBit(config.power_save))
    IN  SetBit(w3, PWM_DITHERING_EN_BIT, BoolBit(config.pwm_dithering))

\* ChipEnByte with the flag inverted
ChipEnByteInverted(en) == SetBit(DEVICE_CONFIG_0_RESET, CHIP_EN_BIT, BoolBit(~en))

\* the byte write_async(|w| w.set_chip_en(en)) produces
ChipEnByte(en) == SetBit(DEVICE_CONFIG_0_RESET, CHIP_EN_BIT, BoolBit(en))

-----------------------------------------------------------------------------
(* The I2C bus and the device behind it *)

TxWrite(addr, bytes, ok) ==
    [kind |-> "write", address |-> addr, bytes |-> bytes, read |-> <<>>, ok |-> ok]

TxWriteRead(addr, bytes, data, ok) ==
    [kind |-> "write_read", address |-> addr, bytes |-> bytes, read |-> data, ok |-> ok]

\* registers of the device (the largest map, LP5036, ends below 0x40)
RegAddrs == 0..63

\* How a write transaction of n data bytes ends: acknowledged whole, or failed
\* after the device took nothing, the first data byte only, or all of the data.
Outcomes(n) ==
    {[ok |-> TRUE, applied |-> n]}
        \cup {[ok |-> FALSE, applied |-> k] : k \in {0, 1, n} \cap (0..n)}

\* the device stores the first k data bytes at reg, reg+1, ... (auto-increment)
DeviceWrite(r, reg, data, k) ==
    [a \in RegAddrs |->
        IF a >= reg /\ a < reg + k /\ a - reg + 1 <= Len(data)
        THEN data[a - reg + 1] ELSE r[a]]

DeviceRead(r, reg) == IF reg \in RegAddrs THEN r[reg] ELSE 0

-----------------------------------------------------------------------------
(* ll/i2c.rs: DeviceInterface *)

MAX_WRITE_SIZE == 13

\* Fits for a buffer one byte short of the longest payload
FitsShortBuffer(data) == 1 + Len(data) <= MAX_WRITE_SIZE - 1

\* write_register: vec.push(address), vec.extend_from_slice(data) must fit
Fits(data) == 1 + Len(data) <= MAX_WRITE_SIZE

\* Result of write_register / AsyncBufferInterface::write
WriteResult(data, out) ==
    IF ~Fits(data) THEN "BufferTooSmall"
    ELSE IF out.ok THEN "Ok" ELSE "Interface"

\* write_register sending what fits of a payload that is too long
write_register_truncating(reg, data, out) ==
    LET sent == IF Fits(data) THEN data ELSE SubSeq(data, 1, MAX_WRITE_SIZE - 1)
    IN  /\ bus' = Append(bus, TxWrite(address, <<reg>> \o sent, out.ok))
        /\ regs' = DeviceWrite(regs, reg, sent, IF out.applied > Len(sent)
                                                 THEN Len(sent) ELSE out.applied)

\* write_register: one i2c.write of [address] ++ data, or nothing at all
write_register(reg, data, out) ==
    IF Fits(data)
    THEN /\ bus' = Append(bus, TxWrite(address, <<reg>> \o data, out.ok))
         /\ regs' = DeviceWrite(regs, reg, data, out.applied)
    ELSE /\ bus' = bus
         /\ regs' = regs

\* the n bytes the device returns from reg on (auto-increment)
DeviceReadN(r, reg, n) == [j \in 1..n |-> DeviceRead(r, reg + j - 1)]

\* read_register with a buffer of n bytes: one i2c.write_read of [address]
\* that fills the buffer
read_register_n(reg, n, ok) ==
    /\ bus' = Append(bus, TxWriteRead(address, <<reg>>,
                                      IF ok THEN DeviceReadN(regs, reg, n) ELSE <<>>, ok))
    /\ regs' = regs

\* read_register: one i2c.write_read of [address] reading one byte
read_register(reg, ok) ==
    /\ bus' = Append(bus, TxWriteRead(address, <<reg>>,
                                      IF ok THEN <<DeviceRead(regs, reg)>> ELSE <<>>, ok))
    /\ regs' = regs

\* AsyncBufferInterface::write: write_register of the whole buffer
write(reg, buf, out) ==
    /\ write_register(reg, buf, out)
    /\ calls' = Append(calls,
           [op |-> "write", args |-> <<reg, buf>>, result |-> WriteResult(buf, out), read |-> -1])
    /\ UNCHANGED <<variant, selector, address, handle, inflight>>

\* a register read of n bytes made on the interface
register_read(reg, n, ok) ==
    /\ read_register_n(reg, n, ok)
    /\ calls' = Append(calls,
           [op |-> "read_register", args |-> <<reg, n>>,
            result |-> IF ok THEN "Ok" ELSE "Interface", read |-> -1])
    /\ UNCHANGED <<variant, selector, address, handle, inflight>>

\* impl From<DeviceError<T>> for Error<T>
ErrorFrom(res) ==
    CASE res = "Interface" -> "Interface"
      [] res = "BufferTooSmall" -> "Panic"      \* unreachable!()
      [] OTHER -> res

-----------------------------------------------------------------------------
(* hl/mod.rs: Driver *)

NoOp == [op |-> "none"]

\* a Driver value exists (in either typestate)
Live == handle \in {"Standby", "Normal"}

\* Exclusive for a Driver shared without the borrow
ExclusiveShared == TRUE

\* `self` / `&mut self`: a method is called only while no other call on the
\* same Driver is suspended
Exclusive == inflight = NoOp

Call(op, args, result) == [op |-> op, args |-> args, result |-> result, read |-> -1]

\* enable giving the Standby handle back when the write fails
enable_keeps_handle(out) ==
    LET data == <<ChipEnByte(TRUE)>>
        res == WriteResult(data, out)
    IN  /\ handle = "Standby"
        /\ Exclusive
        /\ write_register(DEVICE_CONFIG_0, data, out)
        /\ handle' = IF res = "Ok" THEN "Normal" ELSE "Standby"
        /\ calls' = Append(calls, Call("enable", <<>>, res))
        /\ UNCHANGED <<variant, selector, address, inflight>>

\* Driver<Standby>::enable: one write of device_config_0 with chip_en set;
\* `self` is consumed, a Driver<Normal> is returned only on Ok
enable(out) ==
    LET data == <<ChipEnByte(TRUE)>>
        res == WriteResult(data, out)
    IN  /\ handle = "Standby"
        /\ Exclusive
        /\ write_register(DEVICE_CONFIG_0, data, out)
        /\ handle' = IF res = "Ok" THEN "Normal" ELSE "None"
        /\ calls' = Append(calls, Call("enable", <<>>, res))
        /\ UNCHANGED <<variant, selector, address, inflight>>

\* disable implemented for every typestate
disable_any_state(out) ==
    LET data == <<ChipEnByte(FALSE)>>
        res == WriteResult(data, out)
    IN  /\ Live
        /\ Exclusive
        /\ write_register(DEVICE_CONFIG_0, data, out)
        /\ handle' = IF res = "Ok" THEN "Standby" ELSE "None"
        /\ calls' = Append(calls, Call("disable", <<>>, res))
        /\ UNCHANGED <<variant, selector, address, inflight>>

\* Driver<Normal>::disable: one write of device_config_0 with chip_en cleared
disable(out) ==
    LET data == <<ChipEnByte(FALSE)>>
        res == WriteResult(data, out)
    IN  /\ handle = "Normal"
        /\ Exclusive
        /\ write_register(DEVICE_CONFIG_0, data, out)
        /\ handle' = IF res = "Ok" THEN "Standby" ELSE "None"
        /\ calls' = Append(calls, Call("disable", <<>>, res))
        /\ UNCHANGED <<variant, selector, address, inflight>>

\* configure going on to the write-back with a zero byte after a failed read
configure_read_ignores_error(config, ok) ==
    /\ Live
    /\ Exclusive
    /\ read_register(DEVICE_CONFIG_1, ok)
    /\ inflight' = [op |-> "configure", config |-> config,
                    value |-> IF ok THEN DeviceRead(regs, DEVICE_CONFIG_1) ELSE 0,
                    call |-> Len(calls) + 1]
    /\ calls' = Append(calls,
           [Call("configure", <<config>>, "Pending")
                EXCEPT !.read = IF ok THEN DeviceRead(regs, DEVICE_CONFIG_1) ELSE -1])
    /\ UNCHANGED <<variant, selector, address, handle>>

\* configure, up to the first await of modify_async: the read of device_config_1
configure_read(config, ok) ==
    /\ Live
    /\ Exclusive
    /\ read_register(DEVICE_CONFIG_1, ok)
    /\ IF ok
       THEN /\ inflight' = [op |-> "configure", config |-> config,
                            value |-> DeviceRead(regs, DEVICE_CONFIG_1),
                            call |-> Len(calls) + 1]
            /\ calls' = Append(calls,
                   [Call("configure", <<config>>, "Pending")
                        EXCEPT !.read = DeviceRead(regs, DEVICE_CONFIG_1)])
       ELSE /\ inflight' = inflight
            /\ calls' = Append(calls, Call("configure", <<config>>, "Interface"))
    /\ UNCHANGED <<variant, selector, address, handle>>

\* configure_write applying the closure to the byte the device holds now
configure_write_fresh(out) ==
    LET data == <<ConfigureFields(DeviceRead(regs, DEVICE_CONFIG_1), inflight.config)>>
    IN  /\ inflight # NoOp
        /\ inflight.op = "configure"
        /\ write_register(DEVICE_CONFIG_1, data, out)
        /\ calls' = [calls EXCEPT ![inflight.call].result = WriteResult(data, out)]
        /\ inflight' = NoOp
        /\ UNCHANGED <<variant, selector, address, handle>>

\* configure, after the read: the closure is applied and the byte written back
configure_write(out) ==
    LET data == <<ConfigureFields(inflight.value, inflight.config)>>
    IN  /\ inflight # NoOp
        /\ inflight.op = "configure"
        /\ write_register(DEVICE_CONFIG_1, data, out)
        /\ calls' = [calls EXCEPT ![inflight.call].result = WriteResult(data, out)]
        /\ inflight' = NoOp
        /\ UNCHANGED <<variant, selector, address, handle>>

\* SetterWrite for setters that took `self` and gave the Driver back only on Ok
SetterWriteConsuming(op, args, reg, data, out) ==
    LET res == ErrorFrom(WriteResult(data, out))
    IN  /\ write_register(reg, data, out)
        /\ calls' = Append(calls, Call(op, args, res))
        /\ handle' = IF res = "Ok" THEN handle ELSE "None"

\* the tail shared by the four setters: AsyncBufferInterface::write, `?` through
\* From<DeviceError>, Ok(())
SetterWrite(op, args, reg, data, out) ==
    LET res == ErrorFrom(WriteResult(data, out))
    IN  /\ write_register(reg, data, out)
        /\ calls' = Append(calls, Call(op, args, res))
        /\ handle' = IF res = "Panic" THEN "None" ELSE handle

\* the early return Err(Error::Index)
IndexError(op, args) ==
    /\ calls' = Append(calls, Call(op, args, "Index"))
    /\ UNCHANGED <<bus, regs, handle>>

\* set_channel without the index check
set_channel_unchecked(channel_i, value, out) ==
    /\ Live
    /\ Exclusive
    /\ SetterWrite("set_channel", <<channel_i, value>>,
                   U8Add(OUT_START_ADDRESS(variant), channel_i), <<value>>, out)
    /\ UNCHANGED <<variant, selector, address, inflight>>

\* set_channel comparing with >=
set_channel_strict(channel_i, value, out) ==
    /\ Live
    /\ Exclusive
    /\ IF channel_i >= LED_COUNT(variant)
       THEN IndexError("set_channel", <<channel_i, value>>)
       ELSE SetterWrite("set_channel", <<channel_i, value>>,
                        U8Add(OUT_START_ADDRESS(variant), channel_i), <<value>>, out)
    /\ UNCHANGED <<variant, selector, address, inflight>>

set_channel(channel_i, value, out) ==
    /\ Live
    /\ Exclusive
    /\ IF channel_i > LED_COUNT(variant)
       THEN IndexError("set_channel", <<channel_i, value>>)
       ELSE SetterWrite("set_channel", <<channel_i, value>>,
                        U8Add(OUT_START_ADDRESS(variant), channel_i), <<value>>, out)
    /\ UNCHANGED <<variant, selector, address, inflight>>

\* set_rgb checking the index only after the write
set_rgb_checks_late(rgb_i, value, out) ==
    LET data == value
        res == ErrorFrom(WriteResult(data, out))
    IN  /\ Live
        /\ Exclusive
        /\ write_register(U8Add(OUT_START_ADDRESS(variant), U8Mul(rgb_i, 3)), data, out)
        /\ calls' = Append(calls, Call("set_rgb", <<rgb_i, value>>,
                                       IF rgb_i > RGB_COUNT(variant) THEN "Index" ELSE res))
        /\ handle' = handle
        /\ UNCHANGED <<variant, selector, address, inflight>>

set_rgb(rgb_i, value, out) ==
    /\ Live
    /\ Exclusive
    /\ IF rgb_i > RGB_COUNT(variant)
       THEN IndexError("set_rgb", <<rgb_i, value>>)
       ELSE SetterWrite("set_rgb", <<rgb_i, value>>,
                        U8Add(OUT_START_ADDRESS(variant), U8Mul(rgb_i, 3)), value, out)
    /\ UNCHANGED <<variant, selector, address, inflight>>

\* set_rgb_brightness addressing from the colour base
set_rgb_brightness_from_out(rgb_i, value, out) ==
    /\ Live
    /\ Exclusive
    /\ IF rgb_i > RGB_COUNT(variant)
       THEN IndexError("set_rgb_brightness", <<rgb_i, value>>)
       ELSE SetterWrite("set_rgb_brightness", <<rgb_i, value>>,
                        U8Add(OUT_START_ADDRESS(variant), rgb_i), <<value>>, out)
    /\ UNCHANGED <<variant, selector, address, inflight>>

set_rgb_brightness(rgb_i, value, out) ==
    /\ Live
    /\ Exclusive
    /\ IF rgb_i > RGB_COUNT(variant)
       THEN IndexError("set_rgb_brightness", <<rgb_i, value>>)
       ELSE SetterWrite("set_rgb_brightness", <<rgb_i, value>>,
                        U8Add(LED_START_ADDRESS(variant), rgb_i), <<value>>, out)
    /\ UNCHANGED <<variant, selector, address, inflight>>

\* set_all_brightness repeating the value once per channel
set_all_brightness_per_channel(value, out) ==
    /\ Live
    /\ Exclusive
    /\ SetterWrite("set_all_brightness", <<value>>, LED_START_ADDRESS(variant),
                   Repeat(value, LED_COUNT(variant)), out)
    /\ UNCHANGED <<variant, selector, address, inflight>>

set_all_brightness(value, out) ==
    /\ Live
    /\ Exclusive
    /\ SetterWrite("set_all_brightness", <<value>>, LED_START_ADDRESS(variant),
                   Repeat(value, RGB_COUNT(variant)), out)
    /\ UNCHANGED <<variant, selector, address, inflight>>

-----------------------------------------------------------------------------
(* The driver under a caller that calls up to MaxOps operations *)

\* control-1 as the device holds it when the driver is constructed
\* (0x3C is the value the tests read)
InitConfig1 == {60}

InitRegs(c1) == [a \in RegAddrs |-> IF a = DEVICE_CONFIG_1 THEN c1 ELSE 0]

InitWith(C1s) ==
    /\ variant \in Variants
    /\ selector \in Selectors
    /\ address = new(variant, selector)
    /\ handle = "Standby"
    /\ inflight = NoOp
    /\ bus = <<>>
    /\ regs \in {InitRegs(c1) : c1 \in C1s}
    /\ calls = <<>>

Init == InitWith(InitConfig1)

\* arguments the caller passes
Values == {255}
Colors == {<<1, 2, 3>>}
CallConfigs ==
    {[log_scale |-> TRUE, power_save |-> TRUE, pwm_dithering |-> FALSE,
      max_current |-> "Current35MA"]}

\* an index every variant has
CallIndices == {2}

\* transactions the transport failed
Failures == Cardinality({i \in DOMAIN bus : ~bus[i].ok})

\* outcomes of a write of n bytes while the transport may still fail
WriteOutcomes(n) == {out \in Outcomes(n) : out.ok \/ Failures < MaxFailures}
ReadOutcomes == {ok \in BOOLEAN : ok \/ Failures < MaxFailures}

MayCall == Len(calls) < MaxOps

Next ==
    \/ MayCall /\ \E out \in WriteOutcomes(1) : enable(out)
    \/ MayCall /\ \E out \in WriteOutcomes(1) : disable(out)
    \/ MayCall /\ \E config \in CallConfigs, ok \in ReadOutcomes : configure_read(config, ok)
    \/ \E out \in WriteOutcomes(1) : configure_write(out)
    \/ MayCall /\ \E i \in CallIndices, v \in Values, out \in WriteOutcomes(1) :
           set_channel(i, v, out)
    \/ MayCall /\ \E i \in CallIndices, c \in Colors, out \in WriteOutcomes(3) :
           set_rgb(i, c, out)
    \/ MayCall /\ \E i \in CallIndices, v \in Values, out \in WriteOutcomes(1) :
           set_rgb_brightness(i, v, out)
    \/ MayCall /\ \E v \in Values, out \in WriteOutcomes(RGB_COUNT(variant)) :
           set_all_brightness(v, out)

Spec == Init /\ [][Next]_vars

-----------------------------------------------------------------------------
(* The setters under every index a u8 holds: one setter call per driver,     *)
(* before or after enable and disable                                        *)

Setters == {"set_channel", "set_rgb", "set_rgb_brightness", "set_all_brightness"}

NoSetterYet == \A k \in DOMAIN calls : calls[k].op \notin Setters

NextIndex ==
    \/ MayCall /\ \E out \in WriteOutcomes(1) : enable(out)
    \/ MayCall /\ \E out \in WriteOutcomes(1) : disable(out)
    \/ MayCall /\ NoSetterYet /\ \E i \in U8, v \in Values, out \in WriteOutcomes(1) :
           set_channel(i, v, out)
    \/ MayCall /\ NoSetterYet /\ \E i \in U8, c \in Colors, out \in WriteOutcomes(3) :
           set_rgb(i, c, out)
    \/ MayCall /\ NoSetterYet /\ \E i \in U8, v \in Values, out \in WriteOutcomes(1) :
           set_rgb_brightness(i, v, out)
    \/ MayCall /\ NoSetterYet /\ \E v \in Values, out \in WriteOutcomes(RGB_COUNT(variant)) :
           set_all_brightness(v, out)

SpecIndex == Init /\ [][NextIndex]_vars

-----------------------------------------------------------------------------
(* configure under every byte control-1 may hold and every Config: one       *)
(* configure call per driver                                                 *)

InitConfigure ==
    /\ InitWith(U8)
    /\ selector = "Address0"

NoConfigureYet == \A k \in DOMAIN calls : calls[k].op # "configure"

NextConfigure ==
    \/ MayCall /\ NoConfigureYet /\ \E config \in Configs, ok \in ReadOutcomes :
           configure_read(config, ok)
    \/ \E out \in WriteOutcomes(1) : configure_write(out)

SpecConfigure == InitConfigure /\ [][NextConfigure]_vars

-----------------------------------------------------------------------------
(* set_all_brightness under every value a u8 holds: one call per driver,     *)
(* before or after enable and disable                                        *)

NextBrightness ==
    \/ MayCall /\ \E out \in WriteOutcomes(1) : enable(out)
    \/ MayCall /\ \E out \in WriteOutcomes(1) : disable(out)
    \/ MayCall /\ NoSetterYet /\ \E v \in U8, out \in WriteOutcomes(RGB_COUNT(variant)) :
           set_all_brightness(v, out)

SpecBrightness == Init /\ [][NextBrightness]_vars

-----------------------------------------------------------------------------
(* The DeviceInterface used directly (as ll/test.rs does), with buffers up   *)
(* to one byte more than it can hold                                         *)

InitAdapter ==
    /\ Init
    /\ variant = "LP5036"
    /\ selector \in {"Address0", "Broadcast"}

\* lengths of the buffers written: empty, one byte, and around the capacity
WriteLens == {0, 1, MAX_WRITE_SIZE - 2, MAX_WRITE_SIZE - 1, MAX_WRITE_SIZE, MAX_WRITE_SIZE + 1}

\* lengths of the buffers read into
ReadLens == {1, 2, 3}

\* registers addressed: control-1 and the first brightness register
AdapterRegs == {DEVICE_CONFIG_1, LED_START_ADDRESS("LP5036")}

NextAdapter ==
    \/ MayCall /\ \E reg \in AdapterRegs, n \in WriteLens, v \in Values :
           \E out \in WriteOutcomes(n) : write(reg, Repeat(v, n), out)
    \/ MayCall /\ \E reg \in AdapterRegs, n \in ReadLens, ok \in ReadOutcomes :
           register_read(reg, n, ok)

SpecAdapter == InitAdapter /\ [][NextAdapter]_vars

-----------------------------------------------------------------------------
(* The driver of Spec on one address pin setting (the address is the same in *)
(* every transaction, whatever the handle's state)                           *)

InitFrame ==
    /\ Init
    /\ selector = "Address0"

SpecFrame == InitFrame /\ [][Next]_vars

-----------------------------------------------------------------------------
(* A second DeviceInterface on the same bus address (an ll::Device writing   *)
(* device_config_1) next to the Driver: it is not held by the Driver's       *)
(* `&mut self`, so its write may land while configure is suspended           *)

\* the other interface's write_register of device_config_1
shared_write(v, out) ==
    /\ write_register(DEVICE_CONFIG_1, <<v>>, out)
    /\ calls' = Append(calls,
           [op |-> "shared_write", args |-> <<v>>,
            result |-> WriteResult(<<v>>, out), read |-> -1])
    /\ UNCHANGED <<variant, selector, address, handle, inflight>>

NoSharedWriteYet == \A k \in DOMAIN calls : calls[k].op # "shared_write"

NextShared ==
    \/ MayCall /\ NoConfigureYet /\ \E config \in Configs, ok \in ReadOutcomes :
           configure_read(config, ok)
    \/ \E out \in WriteOutcomes(1) : configure_write(out)
    \/ MayCall /\ NoSharedWriteYet /\ \E v \in U8, out \in WriteOutcomes(1) :
           shared_write(v, out)

SpecShared == InitFrame /\ [][NextShared]_vars

-----------------------------------------------------------------------------
(* Properties *)

Last(q) == q[Len(q)]

\* the step is a call of `op` (the call is logged when it is made)
Called(op) == Len(calls') = Len(calls) + 1 /\ Last(calls').op = op

\* the step put exactly the transaction tx on the bus
Issued(tx) == bus' = Append(bus, tx)

\* the transactions one logged call put on the bus, from its arguments, the
\* byte it read and its result
CallTxs(c) ==
    LET ok == c.result = "Ok"
        i == c.args[1]
    IN  CASE c.op = "enable" -> <<TxWrite(address, <<DEVICE_CONFIG_0, ChipEnByte(TRUE)>>, ok)>>
          [] c.op = "disable" -> <<TxWrite(address, <<DEVICE_CONFIG_0, ChipEnByte(FALSE)>>, ok)>>
          [] c.op = "configure" ->
                IF c.read < 0
                THEN <<TxWriteRead(address, <<DEVICE_CONFIG_1>>, <<>>, FALSE)>>
                ELSE <<TxWriteRead(address, <<DEVICE_CONFIG_1>>, <<c.read>>, TRUE)>>
                     \o (IF c.result = "Pending" THEN <<>>
                         ELSE <<TxWrite(address,
                                   <<DEVICE_CONFIG_1, ConfigureFields(c.read, c.args[1])>>, ok)>>)
          [] c.result = "Index" -> <<>>
          [] c.op = "set_channel" ->
                <<TxWrite(address, <<OUT_START_ADDRESS(variant) + i, c.args[2]>>, ok)>>
          [] c.op = "set_rgb" ->
                <<TxWrite(address, <<OUT_START_ADDRESS(variant) + 3 * i>> \o c.args[2], ok)>>
          [] c.op = "set_rgb_brightness" ->
                <<TxWrite(address, <<LED_START_ADDRESS(variant) + i, c.args[2]>>, ok)>>
          [] c.op = "set_all_brightness" ->
                <<TxWrite(address, <<LED_START_ADDRESS(variant)>>
                                       \o Repeat(c.args[1], RGB_COUNT(variant)), ok)>>

RECURSIVE ConcatTxs(_)
ConcatTxs(cs) ==
    IF cs = <<>> THEN <<>> ELSE CallTxs(Head(cs)) \o ConcatTxs(Tail(cs))

\* C1: the bus trace is, at every moment, the concatenation in call order of
\* the transactions of the operations called on the handle: nothing is
\* interleaved, reordered, duplicated or added, and an operation's transactions
\* are all on the bus before the next operation's first one.
C1_TraceIsConcatenation == bus = ConcatTxs(calls)

\* enable, configure and a setter, all successful: four transactions
C1_Witness ==
    /\ Len(calls) = 3
    /\ calls[1].op = "enable" /\ calls[2].op = "configure" /\ calls[3].op = "set_rgb"
    /\ \A k \in 1..3 : calls[k].result = "Ok"
    /\ Len(bus) = 4
    /\ <<bus[1].kind, bus[2].kind, bus[3].kind, bus[4].kind>>
           = <<"write", "write_read", "write", "write">>

\* the successful enable and disable calls, in call order
Transitions ==
    SelectSeq(calls, LAMBDA c : c.op \in {"enable", "disable"} /\ c.result = "Ok")

\* C2: the handle is created in Standby; the successful transitions alternate
\* enable, disable, enable, ... starting with enable; and the one live handle is
\* Normal after an enable and Standby after a disable (or before any).
C2_Typestate ==
    /\ calls = <<>> => handle = "Standby"
    /\ \A k \in DOMAIN Transitions :
           Transitions[k].op = IF k % 2 = 1 THEN "enable" ELSE "disable"
    /\ Live => handle = IF Len(Transitions) % 2 = 1 THEN "Normal" ELSE "Standby"

\* enable, disable, enable
C2_Witness ==
    /\ Len(Transitions) = 3
    /\ handle = "Normal"

\* C3: enable is exactly one bus write of [0x00, 0x40] and disable exactly one
\* bus write of [0x00, 0x00], whatever control-0 holds; no read is issued.
C3_EnableDisableWrites ==
    [][/\ Called("enable") => \E ok \in BOOLEAN : Issued(TxWrite(address, <<0, 64>>, ok))
       /\ Called("disable") => \E ok \in BOOLEAN : Issued(TxWrite(address, <<0, 0>>, ok))]_vars

\* enable then disable succeeded, the device holding 0x40 when disable was called
C3_Witness ==
    /\ Len(calls) >= 2
    /\ calls[1].op = "enable" /\ calls[1].result = "Ok"
    /\ calls[2].op = "disable" /\ calls[2].result = "Ok"
    /\ bus[1].bytes = <<0, 64>> /\ bus[2].bytes = <<0, 0>>
    /\ regs[DEVICE_CONFIG_0] = 0

-----------------------------------------------------------------------------

\* the four fields configure sets
ConfigBits ==
    {LOG_SCALE_EN_BIT, POWER_SAVE_EN_BIT, PWM_DITHERING_EN_BIT, MAX_CURRENT_OPTION_BIT}

\* C4: a completed configure(cfg) is one write-then-read of register 0x01
\* reading one byte r, then one write [0x01, v], where the four fields of v are
\* cfg's and every other bit of v is that of r, for every r in 0..255; r = 0x3C
\* with log_scale, power_save, no dithering and 35mA gives 0x3C & ~(1<<2) | (1<<1).
C4_ConfigureReadModifyWrite ==
    \A k \in DOMAIN calls :
        (calls[k].op = "configure" /\ calls[k].result \in {"Ok", "Interface"}
            /\ calls[k].read >= 0) =>
        /\ Len(bus) = 2
        /\ bus[1].kind = "write_read" /\ bus[1].bytes = <<1>> /\ Len(bus[1].read) = 1
        /\ bus[2].kind = "write" /\ Len(bus[2].bytes) = 2 /\ bus[2].bytes[1] = 1
        /\ LET r == bus[1].read[1]
               v == bus[2].bytes[2]
               cfg == calls[k].args[1]
           IN  /\ Bit(v, LOG_SCALE_EN_BIT) = BoolBit(cfg.log_scale)
               /\ Bit(v, POWER_SAVE_EN_BIT) = BoolBit(cfg.power_save)
               /\ Bit(v, PWM_DITHERING_EN_BIT) = BoolBit(cfg.pwm_dithering)
               /\ Bit(v, MAX_CURRENT_OPTION_BIT)
                      = (IF cfg.max_current = "Current35MA" THEN 1 ELSE 0)
               /\ \A n \in (0..7) \ ConfigBits : Bit(v, n) = Bit(r, n)
               /\ (r = 60 /\ cfg.log_scale /\ cfg.power_save /\ ~cfg.pwm_dithering
                      /\ cfg.max_current = "Current35MA") => v = 58

\* the fixture: 0x3C read, 0x3A written and stored by the device
C4_Witness ==
    /\ Len(calls) = 1 /\ calls[1].result = "Ok"
    /\ Len(bus) = 2
    /\ bus[1].read = <<60>>
    /\ bus[2].bytes = <<1, 58>>
    /\ regs[DEVICE_CONFIG_1] = 58

\* the pin offset of a strap selector
PinOffset(a) ==
    CASE a = "Address0" -> 0
      [] a = "Address1" -> 2
      [] a = "Address2" -> 4
      [] a = "Address3" -> 6

\* the byte whose bits are those set in a or in b
OrOf(a, b) ==
    CHOOSE x \in U8 : \A n \in 0..7 : (Bit(x, n) = 1) <=> (Bit(a, n) = 1 \/ Bit(b, n) = 1)

\* C5: the bus address fixed at construction is base_address | pin_offset for
\* the four strap selectors and broadcast_address for Broadcast, and every
\* transaction issued through the handle, in either state, carries it.
C5_AddressFixed ==
    /\ address = IF selector = "Broadcast" THEN I2C_ADDRESS_BROADCAST(variant)
                 ELSE OrOf(I2C_ADDRESS_BASE(variant), PinOffset(selector))
    /\ \A k \in DOMAIN bus : bus[k].address = address

\* three transactions through an enable and a disable
C5_Witness ==
    /\ selector = "Address2" /\ variant = "LP5018"
    /\ Len(Transitions) = 2
    /\ Len(bus) = 3
    /\ \A k \in 1..3 : bus[k].address = 84

\* (channels, rgb_count, base address, broadcast address, brightness_base,
\* color_base) of a variant
Row(v) ==
    <<LED_COUNT(v), RGB_COUNT(v), I2C_ADDRESS_BASE(v), I2C_ADDRESS_BROADCAST(v),
      LED_START_ADDRESS(v), OUT_START_ADDRESS(v)>>

\* C6 as stated: base addresses 0b0110000 / 0b0101000, broadcast addresses
\* 0b0011100 / 0b0111100, and Model-30 with the second strap at 0b0110010 (50).
C6_Original ==
    /\ Row(variant) =
         CASE variant = "LP5009" -> <<9, 3, 48, 28, 7, 11>>
           [] variant = "LP5012" -> <<12, 4, 48, 28, 7, 11>>
           [] variant = "LP5018" -> <<18, 6, 40, 60, 7, 15>>
           [] variant = "LP5024" -> <<24, 8, 40, 60, 7, 15>>
           [] variant = "LP5030" -> <<30, 10, 48, 28, 8, 20>>
           [] variant = "LP5036" -> <<36, 12, 48, 28, 8, 20>>
    /\ (variant = "LP5030" /\ selector = "Address1") => address = 50

\* C6 (amended): the per-variant constants are (channels, rgb_count, base,
\* broadcast, brightness_base, color_base) = Model-9 (9, 3, 0b01100000,
\* 0b00111000, 0x07, 0x0B); Model-12 (12, 4, 0b01100000, 0b00111000, 0x07,
\* 0x0B); Model-18 (18, 6, 0b01010000, 0b01111000, 0x07, 0x0F); Model-24 (24,
\* 8, 0b01010000, 0b01111000, 0x07, 0x0F); Model-30 (30, 10, 0b01100000,
\* 0b00111000, 0x08, 0x14); Model-36 (36, 12, 0b01100000, 0b00111000, 0x08,
\* 0x14); Model-30 with the second strap selector resolves to 0b01100010 (98).
C6_VariantTable ==
    /\ Row(variant) =
         CASE variant = "LP5009" -> <<9, 3, 96, 56, 7, 11>>
           [] variant = "LP5012" -> <<12, 4, 96, 56, 7, 11>>
           [] variant = "LP5018" -> <<18, 6, 80, 120, 7, 15>>
           [] variant = "LP5024" -> <<24, 8, 80, 120, 7, 15>>
           [] variant = "LP5030" -> <<30, 10, 96, 56, 8, 20>>
           [] variant = "LP5036" -> <<36, 12, 96, 56, 8, 20>>
    /\ (variant = "LP5030" /\ selector = "Address1") => address = 98

\* the fixture's driver after its first transaction
C6_Witness ==
    /\ variant = "LP5030" /\ selector = "Address1"
    /\ Len(bus) >= 1
    /\ bus[1] = TxWrite(98, <<0, 64>>, TRUE)

-----------------------------------------------------------------------------

\* the calls of the indexed setters
ChannelCalls == {k \in DOMAIN calls : calls[k].op = "set_channel"}
RgbCalls == {k \in DOMAIN calls : calls[k].op \in {"set_rgb", "set_rgb_brightness"}}

\* the bus writes that are not writes of control-0
DataWrites == SelectSeq(bus, LAMBDA t : t.kind = "write" /\ t.bytes[1] # DEVICE_CONFIG_0)

C8_IndexedLedExists ==
    /\ \A k \in ChannelCalls :
           calls[k].args[1] >= LED_COUNT(variant) => calls[k].result = "Index"
    /\ \A k \in RgbCalls :
           calls[k].args[1] >= RGB_COUNT(variant) => calls[k].result = "Index"

\* the step is a call of an indexed setter that returned Error::Index
RejectedIndex ==
    /\ Called("set_channel") \/ Called("set_rgb") \/ Called("set_rgb_brightness")
    /\ Last(calls').result = "Index"

\* C9: a setter that returns IndexOutOfRange issued no bus transaction, left the
\* device registers unchanged and left the handle live in the state it had.
C9_IndexCheckedFirst ==
    [][RejectedIndex =>
          /\ bus' = bus
          /\ regs' = regs
          /\ handle' = handle /\ handle' \in {"Standby", "Normal"}
          /\ inflight' = NoOp]_vars

\* a Normal handle rejected set_rgb(255, _) and was then disabled successfully
C9_Witness ==
    /\ Len(calls) = 3
    /\ calls[1].op = "enable" /\ calls[1].result = "Ok"
    /\ calls[2].op = "set_rgb" /\ calls[2].args[1] = 255 /\ calls[2].result = "Index"
    /\ calls[3].op = "disable" /\ calls[3].result = "Ok"
    /\ Len(bus) = 2
    /\ handle = "Standby"

\* the step is an enable or disable whose bus write failed
FailedTransition ==
    /\ Called("enable") \/ Called("disable")
    /\ Len(bus') = Len(bus) + 1
    /\ ~Last(bus').ok

\* C10: when the bus write of enable or disable fails, the call returns the bus
\* failure and no handle of either state exists afterwards; from then on no
\* operation is called and no transaction issued through that driver.
C10_FailedTransitionDropsHandle ==
    [][/\ FailedTransition => (Last(calls').result = "Interface" /\ handle' = "None")
       /\ handle = "None" => (handle' = "None" /\ bus' = bus /\ calls' = calls)]_vars

\* disable failed on a Normal handle
C10_Witness ==
    /\ handle = "None"
    /\ Len(calls) = 2
    /\ calls[1].op = "enable" /\ calls[1].result = "Ok"
    /\ calls[2].op = "disable" /\ calls[2].result = "Interface"
    /\ Len(bus) = 2 /\ ~bus[2].ok

-----------------------------------------------------------------------------

\* the calls that returned the bus failure
InterfaceErrors == {k \in DOMAIN calls : calls[k].result = "Interface"}

\* the step put a transaction on the bus that the transport failed
FailedTransaction == Len(bus') > Len(bus) /\ ~Last(bus').ok

\* the call the step belongs to: the suspended one, or the one just made
StepCall == IF inflight # NoOp THEN inflight.call ELSE Len(calls')

\* C11: when a bus transaction of an operation fails, that one transaction is
\* the operation's last: the operation ends in the same step returning the bus
\* failure, nothing is retried (configure does not write register 0x01 after
\* its read of 0x01 failed), and each failed operation accounts for exactly one
\* failed transaction.
C11_FailureEndsOperation ==
    [][/\ FailedTransaction =>
            /\ Len(bus') = Len(bus) + 1
            /\ inflight' = NoOp
            /\ calls'[StepCall].result = "Interface"
       /\ Cardinality(InterfaceErrors') = Failures'
       /\ \A k \in DOMAIN bus' :
            (bus'[k].kind = "write_read" /\ ~bus'[k].ok /\ k < Len(bus')) =>
                ~(bus'[k + 1].kind = "write" /\ bus'[k + 1].bytes[1] = DEVICE_CONFIG_1)]_vars

\* configure's read failed; the next transaction is that of the next call
C11_Witness ==
    /\ Len(calls) = 2
    /\ calls[1].op = "configure" /\ calls[1].result = "Interface" /\ calls[1].read = -1
    /\ calls[2].op = "set_channel" /\ calls[2].result = "Ok"
    /\ Len(bus) = 2
    /\ bus[1].kind = "write_read" /\ ~bus[1].ok
    /\ bus[2].kind = "write" /\ bus[2].bytes[1] # DEVICE_CONFIG_1

-----------------------------------------------------------------------------

\* C12: BufferTooSmall never reaches the public surface: for every variant and
\* every operation each write handed to the bus has at most 12 data bytes (13
\* with the register address), every call made put its write on the bus, no
\* call returns BufferTooSmall and the unreachable!() arm is never taken.
C12_BufferNeverTooSmall ==
    /\ \A k \in DOMAIN bus :
          bus[k].kind = "write" => Len(bus[k].bytes) - 1 <= 12 /\ Len(bus[k].bytes) <= 13
    /\ \A k \in DOMAIN calls :
          /\ calls[k].result \notin {"BufferTooSmall", "Panic"}
          /\ Len(CallTxs(calls[k])) >= 1
    /\ Len(calls) > 0 => Len(bus) >= Len(calls)

\* the longest payload there is: the 12 brightness bytes of the LP5036
C12_Witness ==
    /\ variant = "LP5036"
    /\ Len(calls) = 1
    /\ calls[1].op = "set_all_brightness" /\ calls[1].result = "Ok"
    /\ Len(bus) = 1
    /\ Len(bus[1].bytes) = 13

-----------------------------------------------------------------------------

\* the calls of the indexed setters whose index was accepted
AcceptedCalls ==
    {k \in ChannelCalls \cup RgbCalls : calls[k].result # "Index"}

\* the bytes the claim gives for the write of an indexed setter call
Framing(c) ==
    LET i == c.args[1]
    IN  CASE c.op = "set_channel" -> <<OUT_START_ADDRESS(variant) + i, c.args[2]>>
          [] c.op = "set_rgb" ->
                <<OUT_START_ADDRESS(variant) + 3 * i, c.args[2][1], c.args[2][2], c.args[2][3]>>
          [] c.op = "set_rgb_brightness" -> <<LED_START_ADDRESS(variant) + i, c.args[2]>>

\* C13: for every variant and every accepted index i an indexed setter issues
\* exactly one bus write and nothing else: set_channel(i, v) writes
\* [color_base + i, v], set_rgb(i, (r, g, b)) writes [color_base + 3*i, r, g, b],
\* set_rgb_brightness(i, v) writes [brightness_base + i, v].
C13_SetterFraming ==
    \A k \in AcceptedCalls :
        /\ Len(DataWrites) = 1
        /\ DataWrites[1].bytes = Framing(calls[k])
        /\ \A j \in DOMAIN bus : bus[j].kind = "write"
        /\ Len(bus) = Cardinality({j \in DOMAIN calls : calls[j].result # "Index"})

\* Model-30: set_rgb(9, (1, 2, 3)) writes [0x2F, 1, 2, 3]
C13_Witness ==
    /\ variant = "LP5030"
    /\ \E k \in AcceptedCalls :
          /\ calls[k].op = "set_rgb" /\ calls[k].args = <<9, <<1, 2, 3>>>>
          /\ calls[k].result = "Ok"
    /\ Len(DataWrites) = 1
    /\ DataWrites[1].bytes = <<47, 1, 2, 3>>

-----------------------------------------------------------------------------

AllBrightnessCalls == {k \in DOMAIN calls : calls[k].op = "set_all_brightness"}

\* C14: for every variant and every value v, set_all_brightness(v) issues
\* exactly one bus write: the byte brightness_base followed by exactly rgb_count
\* copies of v; it returns Ok or the bus failure, never IndexOutOfRange.
C14_AllBrightnessFraming ==
    \A k \in AllBrightnessCalls :
        /\ calls[k].result \in {"Ok", "Interface"}
        /\ Len(DataWrites) = 1
        /\ Len(DataWrites[1].bytes) = 1 + RGB_COUNT(variant)
        /\ DataWrites[1].bytes[1] = LED_START_ADDRESS(variant)
        /\ \A j \in 2..(1 + RGB_COUNT(variant)) : DataWrites[1].bytes[j] = calls[k].args[1]
        /\ DataWrites[1].ok <=> calls[k].result = "Ok"
        /\ \A j \in DOMAIN bus : bus[j].kind = "write"
        /\ Len(bus) = Len(calls)

\* Model-30: 0x08 followed by ten bytes 0x55, written by a Normal handle
C14_Witness ==
    /\ variant = "LP5030"
    /\ handle = "Normal"
    /\ \E k \in AllBrightnessCalls : calls[k].args = <<85>> /\ calls[k].result = "Ok"
    /\ Len(DataWrites) = 1
    /\ DataWrites[1].bytes = <<8, 85, 85, 85, 85, 85, 85, 85, 85, 85, 85>>

-----------------------------------------------------------------------------

\* C15: the adapter's write(reg, data) issues exactly one bus write of
\* [reg] ++ data when len(data) <= 12; when len(data) > 12 it fails with
\* BufferTooSmall and issues no transaction at all (nothing truncated, nothing
\* partial). Its register read issues exactly one combined transaction that
\* writes the single byte [reg] and reads the requested number of bytes.
C15_AdapterFraming ==
    [][/\ Called("write") =>
            LET reg == Last(calls').args[1]
                data == Last(calls').args[2]
            IN  IF Len(data) <= 12
                THEN /\ Len(bus') = Len(bus) + 1
                     /\ Last(bus').kind = "write"
                     /\ Last(bus').address = address
                     /\ Last(bus').bytes = <<reg>> \o data
                     /\ Last(calls').result = IF Last(bus').ok THEN "Ok" ELSE "Interface"
                ELSE /\ bus' = bus
                     /\ regs' = regs
                     /\ Last(calls').result = "BufferTooSmall"
       /\ Called("read_register") =>
            /\ Len(bus') = Len(bus) + 1
            /\ Last(bus').kind = "write_read"
            /\ Last(bus').address = address
            /\ Last(bus').bytes = <<Last(calls').args[1]>>
            /\ Last(bus').ok => Len(Last(bus').read) = Last(calls').args[2]
            /\ Last(calls').result = IF Last(bus').ok THEN "Ok" ELSE "Interface"
            /\ regs' = regs]_vars

\* 13 data bytes are refused without a transaction, 12 are written, and a
\* two-byte read follows
C15_Witness ==
    /\ Len(calls) = 3
    /\ calls[1].op = "write" /\ Len(calls[1].args[2]) = 13
    /\ calls[1].result = "BufferTooSmall"
    /\ calls[2].op = "write" /\ Len(calls[2].args[2]) = 12 /\ calls[2].result = "Ok"
    /\ calls[3].op = "read_register" /\ calls[3].args[2] = 2 /\ calls[3].result = "Ok"
    /\ Len(bus) = 2
    /\ Len(bus[1].bytes) = 13
    /\ bus[2].kind = "write_read" /\ Len(bus[2].read) = 2

-----------------------------------------------------------------------------

StateFreeOps == Setters \cup {"configure"}

\* the step is a call of configure or of a setter, or configure's write-back
StateFreeStep ==
    \/ Len(calls') = Len(calls) + 1 /\ Last(calls').op \in StateFreeOps
    \/ inflight # NoOp /\ inflight' = NoOp

\* C16: configure, set_channel, set_rgb, set_rgb_brightness and
\* set_all_brightness can be called on a live handle in Standby and in Normal
\* alike; whether they succeed or fail the handle stays live in the state it
\* had; and the transactions they issue are determined by the call (its
\* arguments, the byte read, the result), not by the state.
C16_StateIndependent ==
    /\ [](Live /\ Exclusive =>
            /\ ENABLED (\E c \in CallConfigs, ok \in BOOLEAN : configure_read(c, ok))
            /\ ENABLED (\E i \in CallIndices, v \in Values, out \in Outcomes(1) :
                            set_channel(i, v, out))
            /\ ENABLED (\E i \in CallIndices, c \in Colors, out \in Outcomes(3) :
                            set_rgb(i, c, out))
            /\ ENABLED (\E i \in CallIndices, v \in Values, out \in Outcomes(1) :
                            set_rgb_brightness(i, v, out))
            /\ ENABLED (\E v \in Values, out \in Outcomes(RGB_COUNT(variant)) :
                            set_all_brightness(v, out)))
    /\ [][StateFreeStep =>
            /\ handle' = handle
            /\ handle' \in {"Standby", "Normal"}
            /\ Len(calls') = Len(calls) + 1 => bus' = bus \o CallTxs(Last(calls'))]_vars

\* set_rgb fails on a Standby handle, the handle is enabled, and the same
\* set_rgb puts the same bytes on the bus from the Normal handle
C16_Witness ==
    /\ Len(calls) = 3
    /\ calls[1].op = "set_rgb" /\ calls[1].result = "Interface"
    /\ calls[2].op = "enable" /\ calls[2].result = "Ok"
    /\ calls[3].op = "set_rgb" /\ calls[3].result = "Ok"
    /\ calls[1].args = calls[3].args
    /\ handle = "Normal"
    /\ Len(bus) = 3
    /\ bus[1].bytes = bus[3].bytes /\ bus[1].address = bus[3].address

-----------------------------------------------------------------------------

\* the bits of control-1 that configure does not set
OtherBits == (0..7) \ ConfigBits

\* another interface's write of control-1 was acknowledged after configure's
\* read, while configure is still suspended
WriteLandedBetween ==
    /\ inflight # NoOp
    /\ \E j \in DOMAIN calls :
          j > inflight.call /\ calls[j].op = "shared_write" /\ calls[j].result = "Ok"

\* C17: configure's read-modify-write is not atomic with respect to another
\* writer of control-1 on the same address: when the other write lands between
\* configure's read and its write-back, the byte written back is built from
\* the byte read before, so after it the bits outside configure's four fields
\* hold the stale values and the other writer's update is gone.
C17_StaleWriteBack ==
    [][(WriteLandedBetween /\ inflight' = NoOp /\ Last(bus').ok) =>
          /\ Last(bus').bytes = <<DEVICE_CONFIG_1,
                                  ConfigureFields(calls[inflight.call].read, inflight.config)>>
          /\ \A n \in OtherBits :
                Bit(regs'[DEVICE_CONFIG_1], n) = Bit(calls[inflight.call].read, n)]_vars

\* control-1 held 0x3C when read; the other writer's 0xC1 went over the bus
\* between the read and the write-back, and its bits 7, 6, 3 and 0 are lost
C17_Witness ==
    /\ Len(calls) = 2
    /\ calls[1].op = "configure" /\ calls[1].result = "Ok" /\ calls[1].read = 60
    /\ calls[2].op = "shared_write" /\ calls[2].args = <<193>> /\ calls[2].result = "Ok"
    /\ Len(bus) = 3
    /\ bus[1].kind = "write_read"
    /\ bus[2].bytes = <<DEVICE_CONFIG_1, 193>>
    /\ bus[3].kind = "write" /\ bus[3].ok
    /\ \A n \in OtherBits :
          /\ Bit(193, n) # Bit(60, n)
          /\ Bit(regs[DEVICE_CONFIG_1], n) = Bit(60, n)

-----------------------------------------------------------------------------

\* the mathematical values the address computation of an indexed setter call
\* passes through, the last one being the register address
AddressTerms(c) ==
    LET i == c.args[1]
    IN  CASE c.op = "set_channel" -> <<OUT_START_ADDRESS(variant) + i>>
          [] c.op = "set_rgb" -> <<3 * i, OUT_START_ADDRESS(variant) + 3 * i>>
          [] c.op = "set_rgb_brightness" -> <<LED_START_ADDRESS(variant) + i>>

\* C18: the u8 address arithmetic never overflows: for every variant and every
\* index 0..255 an indexed setter either rejects the call before computing
\* anything (no write at all), or every sum and product it computes is at most
\* 255 and the register address on the bus is the mathematical value.
C18_NoAddressOverflow ==
    \A k \in ChannelCalls \cup RgbCalls :
        IF calls[k].result = "Index"
        THEN DataWrites = <<>>
        ELSE /\ \A t \in DOMAIN AddressTerms(calls[k]) : AddressTerms(calls[k])[t] <= 255
             /\ Len(DataWrites) = 1
             /\ DataWrites[1].bytes[1] = Last(AddressTerms(calls[k]))

\* the largest address computed: LP5036, set_rgb(12, _) at 0x14 + 36, and
\* set_rgb(13, _) and above rejected
C18_Witness ==
    /\ variant = "LP5036"
    /\ \E k \in RgbCalls :
          /\ calls[k].op = "set_rgb" /\ calls[k].args[1] = 12 /\ calls[k].result = "Ok"
    /\ Len(DataWrites) = 1
    /\ DataWrites[1].bytes[1] = 56

-----------------------------------------------------------------------------

\* the registers a write transaction addresses: its data bytes go to the
\* register named first and the ones after it (auto-increment)
Touched(t) == {t.bytes[1] + j : j \in 0..(Len(t.bytes) - 2)}

BrightnessBlock ==
    LED_START_ADDRESS(variant)..(LED_START_ADDRESS(variant) + RGB_COUNT(variant) - 1)

ColourBlock ==
    OUT_START_ADDRESS(variant)..(OUT_START_ADDRESS(variant) + LED_COUNT(variant) - 1)

\* C19: for every variant and every index the driver accepts, the registers
\* touched by set_rgb_brightness and set_all_brightness lie in the brightness
\* block [brightness_base, brightness_base + rgb_count - 1] and those touched by
\* set_channel and set_rgb lie in the colour block
\* [color_base, color_base + channel_count - 1].
C19_BlockConfinement ==
    \A k \in DOMAIN calls : \A w \in DOMAIN DataWrites :
        /\ calls[k].op \in {"set_rgb_brightness", "set_all_brightness"} =>
              Touched(DataWrites[w]) \subseteq BrightnessBlock
        /\ calls[k].op \in {"set_channel", "set_rgb"} =>
              Touched(DataWrites[w]) \subseteq ColourBlock

-----------------------------------------------------------------------------

\* C20: the typestate tracks the chip-enable bit: starting from chip-enable 0
\* with the handle the only writer, bit 6 of register 0x00 is 1 exactly when the
\* live handle is Normal and 0 exactly when it is Standby; configure and the
\* setters never write register 0x00.
C20_TypestateTracksChipEn ==
    /\ Live =>
          /\ handle = "Normal" <=> Bit(regs[DEVICE_CONFIG_0], CHIP_EN_BIT) = 1
          /\ handle = "Standby" <=> Bit(regs[DEVICE_CONFIG_0], CHIP_EN_BIT) = 0
    /\ \A k \in DOMAIN bus :
          (bus[k].kind = "write" /\ bus[k].bytes[1] # DEVICE_CONFIG_0) =>
              DEVICE_CONFIG_0 \notin Touched(bus[k])
    /\ Cardinality({k \in DOMAIN bus : bus[k].kind = "write" /\ bus[k].bytes[1] = DEVICE_CONFIG_0})
          = Cardinality({k \in DOMAIN calls : calls[k].op \in {"enable", "disable"}})

\* enabled, then every brightness register written and control-1 configured:
\* the handle is Normal and control-0 still holds 0x40
C20_Witness ==
    /\ Len(calls) = 3
    /\ calls[1].op = "enable" /\ calls[2].op = "set_all_brightness"
    /\ calls[3].op = "configure"
    /\ \A k \in 1..3 : calls[k].result = "Ok"
    /\ handle = "Normal"
    /\ regs[DEVICE_CONFIG_0] = 64

=============================================================================
